---- MODULE Spec2Model ----
(***************************************************************************)
(* The explicit-lyrics notebook (src/project5.ipynb) as a state machine.   *)
(*                                                                         *)
(* The notebook's cells are the actions; its module-level names (tracks,   *)
(* stemmed_lyrics, words, vec, featuresets, classifier, metrics, ...) are  *)
(* the variables.  Strings are sequences of one-character strings, so that *)
(* str.split(" "), str.lower(), the Porter stemmer and CountVectorizer's   *)
(* token pattern are computed character by character.                      *)
(*                                                                         *)
(* Library calls are modelled by what the library does with the arguments  *)
(* the notebook passes (all defaults): nltk PorterStemmer.stem,            *)
(* sklearn CountVectorizer(), sklearn train_test_split(),                  *)
(* nltk NaiveBayesClassifier (ELE estimator), sklearn                      *)
(* precision_recall_fscore_support(), numpy array arithmetic.              *)
(***************************************************************************)
EXTENDS Integers, Sequences, FiniteSets, TLC

VARIABLES
    pc,                         \* which cells have run
    tracks,                     \* the table: <<[lyrics, explicit], ...>>
    stemmed_lyrics,             \* tracks['stemmed_lyrics']
    restemmed,                  \* stemLyrics run once more on its own output
    words,                      \* vectorizer.get_feature_names_out()
    vec,                        \* rows of fit_transform(...).toarray()
    featuresets,                \* <<(featureX, isExplicit), ...>>
    err,                        \* the exception that ended the run, or "none"
    trainSet, testSet,          \* naive_bayes: the split, as track indices
    predictY,                   \* naive_bayes: predictions for testSet
    classifier,                 \* naive_bayes: the trained classifier
    metrics,                    \* naive_bayes: the metrics record
    num_most_informative,       \* K of the feature-selection cell
    most_informative_features,  \* names of the top-K (name, value) pairs
    informative_featuresets,    \* the reduced featuresets
    mc_n,                       \* MonteCarloCrossValidation: n
    mc_calls,                   \* naive_bayes calls the validator has made
    mc_runs,                    \* the metrics record of each of those calls
    metrics_averages            \* what MonteCarloCrossValidation returned

vars == <<pc, tracks, stemmed_lyrics, restemmed, words, vec, featuresets, err,
          trainSet, testSet, predictY, classifier, metrics,
          num_most_informative, most_informative_features,
          informative_featuresets, mc_n, mc_calls, mc_runs, metrics_averages>>

(***************************************************************************)
(* Bounds                                                                  *)
(***************************************************************************)
\* longest raw lyric string of the text specification
MaxLen == 4
\* most tracks of a corpus
MaxTracks == 5
\* largest top-K of the feature-selection cell
MaxK == 2
\* most repetitions of the Monte Carlo validator
MaxN == 2
\* most tracks of a corpus that goes on to feature selection or to the
\* Monte Carlo validator
MaxTracksSmall == 4

(***************************************************************************)
(* Characters and strings                                                  *)
(***************************************************************************)
SP == " "
NL == "\n"
APOS == "'"

\* the characters lyrics are drawn from: letters, one upper-case letter,
\* two whitespace characters and one punctuation mark
Alphabet == {"a", "n", "s", "A", SP, NL, APOS}

\* \w of Python's re module, on the alphabet
IsWordChar(c) == c \in {"a", "n", "s", "A"}

\* str.isspace(), on the alphabet
IsSpace(c) == c \in {SP, NL}

\* code-point order of the lower-case letters
Ord(c) == CASE c = "a" -> 97 [] c = "n" -> 110 [] c = "s" -> 115
            [] c = "A" -> 65 [] c = SP -> 32 [] c = NL -> 10 [] OTHER -> 39

LowerChar(c) == IF c = "A" THEN "a" ELSE c

\* str.lower()
Lower(s) == [i \in 1..Len(s) |-> LowerChar(s[i])]

RECURSIVE StringsOfLen(_)
StringsOfLen(n) ==
    IF n = 0 THEN {<<>>}
    ELSE {Append(s, c) : s \in StringsOfLen(n - 1), c \in Alphabet}

RECURSIVE StringsUpTo(_)
StringsUpTo(n) == IF n = 0 THEN {<<>>} ELSE StringsOfLen(n) \cup StringsUpTo(n - 1)

\* str.split(" "): cut at every single space; empty pieces are kept
RECURSIVE SplitOnSpace(_)
SplitOnSpace(s) ==
    IF \A i \in 1..Len(s) : s[i] # SP THEN <<s>>
    ELSE LET i == CHOOSE k \in 1..Len(s) : s[k] = SP /\ \A m \in 1..(k - 1) : s[m] # SP
         IN <<SubSeq(s, 1, i - 1)>> \o SplitOnSpace(SubSeq(s, i + 1, Len(s)))

\* ' '.join(list)
RECURSIVE JoinWithSpace(_)
JoinWithSpace(list) ==
    IF list = <<>> THEN <<>>
    ELSE IF Len(list) = 1 THEN list[1]
    ELSE list[1] \o <<SP>> \o JoinWithSpace(Tail(list))

\* stopwords.words('english'), restricted to the words over the alphabet
stopWords == {<<"a">>, <<"a", "n">>, <<"a", "s">>, <<"s">>}

EndsWith(w, suffix) ==
    /\ Len(w) >= Len(suffix)
    /\ SubSeq(w, Len(w) - Len(suffix) + 1, Len(w)) = suffix

\* PorterStemmer._step1a: of its rules (sses, ies, ss, s) the last two are the
\* ones a word over the alphabet can end with; the first matching rule is used
Step1a(w) ==
    IF EndsWith(w, <<"s", "s">>) THEN w
    ELSE IF EndsWith(w, <<"s">>) THEN SubSeq(w, 1, Len(w) - 1)
    ELSE w

\* PorterStemmer.stem(word): lower-cases, returns words of at most two
\* characters as they are, then applies steps 1a..5b; every suffix of steps
\* 1b..5b holds a letter outside the alphabet, so step 1a is the one that acts
Stem(w) == IF Len(w) <= 2 THEN Lower(w) ELSE Step1a(Lower(w))

\* the list comprehension of stemLyrics
RECURSIVE StemKept(_, _)
StemKept(lyricsList, stop_words) ==
    IF lyricsList = <<>> THEN <<>>
    ELSE LET word == Head(lyricsList)
             rest == StemKept(Tail(lyricsList), stop_words)
         IN IF Lower(word) \notin stop_words THEN <<Stem(word)>> \o rest ELSE rest

\* the body of stemLyrics' loop, for one lyric string
StemOne(lyrics, stop_words) == JoinWithSpace(StemKept(SplitOnSpace(lyrics), stop_words))

\* stemLyrics(stop_words), over a column of lyric strings
StemLyricsOf(column, stop_words) == [i \in 1..Len(column) |-> StemOne(column[i], stop_words)]

(***************************************************************************)
(* CountVectorizer(): lowercase=True, token_pattern (?u)\b\w\w+\b          *)
(***************************************************************************)
\* re.findall of the token pattern: the maximal runs of word characters that
\* are at least two characters long
RECURSIVE TokScan(_, _, _, _)
TokScan(s, i, cur, acc) ==
    IF i > Len(s) THEN (IF Len(cur) >= 2 THEN Append(acc, cur) ELSE acc)
    ELSE IF IsWordChar(s[i]) THEN TokScan(s, i + 1, Append(cur, s[i]), acc)
    ELSE TokScan(s, i + 1, <<>>, IF Len(cur) >= 2 THEN Append(acc, cur) ELSE acc)

\* as Tokenize, with the token pattern \w+ : one-character tokens are kept
RECURSIVE TokScanShort(_, _, _, _)
TokScanShort(s, i, cur, acc) ==
    IF i > Len(s) THEN (IF Len(cur) >= 1 THEN Append(acc, cur) ELSE acc)
    ELSE IF IsWordChar(s[i]) THEN TokScanShort(s, i + 1, Append(cur, s[i]), acc)
    ELSE TokScanShort(s, i + 1, <<>>, IF Len(cur) >= 1 THEN Append(acc, cur) ELSE acc)

TokenizeShort(doc) == TokScanShort(Lower(doc), 1, <<>>, <<>>)

Tokenize(doc) == TokScan(Lower(doc), 1, <<>>, <<>>)

\* Python's order of two distinct strings
RECURSIVE LexLess(_, _)
LexLess(u, v) ==
    IF u = <<>> THEN v # <<>>
    ELSE IF v = <<>> THEN FALSE
    ELSE IF Head(u) # Head(v) THEN Ord(Head(u)) < Ord(Head(v))
    ELSE LexLess(Tail(u), Tail(v))

RECURSIVE SortedSeq(_)
SortedSeq(S) ==
    IF S = {} THEN <<>>
    ELSE LET m == CHOOSE x \in S : \A y \in S \ {x} : LexLess(x, y)
         IN <<m>> \o SortedSeq(S \ {m})

Range(s) == {s[i] : i \in 1..Len(s)}

\* the vocabulary fit() collects, sorted as get_feature_names_out() gives it
VocabularyOf(docs) == SortedSeq(UNION {Range(Tokenize(docs[i])) : i \in 1..Len(docs)})

CountIn(tokens, w) == Cardinality({k \in 1..Len(tokens) : tokens[k] = w})

\* one row of fit_transform(docs).toarray()
CountVector(doc, vocabulary) ==
    [j \in 1..Len(vocabulary) |-> CountIn(Tokenize(doc), vocabulary[j])]

(***************************************************************************)
(* Dictionaries: functions from keys to values                             *)
(***************************************************************************)
EmptyDict == <<>>

\* d[k] = v
DictSet(d, k, v) == [x \in (DOMAIN d) \cup {k} |-> IF x = k THEN v ELSE d[x]]

\* the inner loop of the featureset cell: for j in range(len(words))
RECURSIVE FeatureLoop(_, _, _, _)
FeatureLoop(ws, row, j, featureX) ==
    IF j > Len(ws) THEN featureX
    ELSE FeatureLoop(ws, row, j + 1, DictSet(featureX, ws[j], row[j]))

\* as FeatureXOf, but a sparse map: zero counts get no entry
FeatureXSparse(ws, row) ==
    LET full == FeatureLoop(ws, row, 1, EmptyDict)
    IN [w \in {x \in DOMAIN full : full[x] # 0} |-> full[w]]

FeatureXOf(ws, row) == FeatureLoop(ws, row, 1, EmptyDict)

\* the outer loop: one (featureX, y.iloc[i]) pair per track
FeaturesetsOf(ws, rows, y) == [i \in 1..Len(y) |-> <<FeatureXOf(ws, rows[i]), y[i]>>]

(***************************************************************************)
(* Exact fractions, for probabilities and metric values                    *)
(***************************************************************************)
Frac(a, b) == [n |-> a, d |-> b]
FracEq(x, y) == x.n * y.d = y.n * x.d
FracLess(x, y) == x.n * y.d < y.n * x.d
FracLeq(x, y) == x.n * y.d <= y.n * x.d
FracAdd(x, y) == Frac(x.n * y.d + y.n * x.d, x.d * y.d)
FracDivInt(x, k) == Frac(x.n, x.d * k)

(***************************************************************************)
(* sklearn train_test_split(featuresets): test_size defaults to 0.25       *)
(***************************************************************************)
\* n_test = ceil(0.25 * n_samples)
NTest(n) == (n + 3) \div 4

\* n_train = n_samples - n_test
NTrain(n) == n - NTest(n)

\* The splits the shuffle can draw.  The two subsets come back in a random
\* order that nothing downstream reads (training and the metrics count), so
\* each subset is kept in index order.
Splits(n) == {S \in SUBSET (1..n) : Cardinality(S) = NTest(n)}

RECURSIVE AscendingSeq(_)
AscendingSeq(S) ==
    IF S = {} THEN <<>>
    ELSE LET m == CHOOSE x \in S : \A y \in S : x <= y
         IN <<m>> \o AscendingSeq(S \ {m})

\* as TrainIndices, but the test tracks are trained on too
TrainIndicesAll(n, S) == AscendingSeq(1..n)

\* the training subset that goes with the test subset S
TrainIndices(n, S) == AscendingSeq((1..n) \ S)

TestIndices(n, S) == AscendingSeq(S)

(***************************************************************************)
(* nltk.NaiveBayesClassifier, estimator ELEProbDist                        *)
(***************************************************************************)
\* the implicit value of a feature a featureset has no entry for
None == -1

FVal(featureDict, fname) ==
    IF fname \in DOMAIN featureDict THEN featureDict[fname] ELSE None

\* as Train, but with an entry for both classes whether seen or not
TrainBothLabels(train) ==
    LET I == 1..Len(train)
        fnames == UNION {DOMAIN train[i][1] : i \in I}
        values == [f \in fnames |-> {FVal(train[i][1], f) : i \in I}]
    IN [label_freqdist |-> [l \in BOOLEAN |-> Cardinality({i \in I : train[i][2] = l})],
        feature_values |-> values,
        feature_freqdist |->
            [lf \in BOOLEAN \X fnames |->
                [v \in values[lf[2]] |->
                    Cardinality({i \in I : /\ train[i][2] = lf[1]
                                           /\ FVal(train[i][1], lf[2]) = v})]]]

\* NaiveBayesClassifier.train(labeled_featuresets): the frequency tables the
\* probability distributions are made of.  train is the sequence of pairs.
Train(train) ==
    LET I == 1..Len(train)
        labels == {train[i][2] : i \in I}
        fnames == UNION {DOMAIN train[i][1] : i \in I}
        values == [f \in fnames |-> {FVal(train[i][1], f) : i \in I}]
    IN [label_freqdist |-> [l \in labels |-> Cardinality({i \in I : train[i][2] = l})],
        feature_values |-> values,
        feature_freqdist |->
            [lf \in labels \X fnames |->
                [v \in values[lf[2]] |->
                    Cardinality({i \in I : /\ train[i][2] = lf[1]
                                           /\ FVal(train[i][1], lf[2]) = v})]]]

Labels(cl) == DOMAIN cl.label_freqdist
FNames(cl) == DOMAIN cl.feature_values

RECURSIVE SumOver(_, _)
SumOver(f, S) ==
    IF S = {} THEN 0
    ELSE LET x == CHOOSE y \in S : TRUE IN f[x] + SumOver(f, S \ {x})

\* ELEProbDist.prob(sample) = (count + 0.5) / (N + 0.5 * bins), as a fraction
\* of odd numerator: (2 * count + 1) / (2 * N + bins).
\* label_probdist: N is the number of training pairs, bins the labels seen.
LabelProb(cl, l) ==
    Frac(2 * cl.label_freqdist[l] + 1,
         2 * SumOver(cl.label_freqdist, Labels(cl)) + Cardinality(Labels(cl)))

\* feature_probdist[label, fname]: N is the label's count (train() books the
\* featuresets without the feature under None), bins = len(feature_values[fname])
FeatureProb(cl, l, fname, fval) ==
    LET fd == cl.feature_freqdist[<<l, fname>>]
        c == IF fval \in DOMAIN fd THEN fd[fval] ELSE 0
    IN Frac(2 * c + 1, 2 * cl.label_freqdist[l] + Cardinality(cl.feature_values[fname]))

\* probdist.samples(): the values counted at least once under (label, fname)
Samples(cl, l, fname) ==
    {v \in cl.feature_values[fname] : cl.feature_freqdist[<<l, fname>>][v] > 0}

RECURSIVE ProdNum(_, _, _, _)
ProdNum(cl, l, featureDict, F) ==
    IF F = {} THEN 1
    ELSE LET f == CHOOSE x \in F : TRUE
         IN FeatureProb(cl, l, f, featureDict[f]).n * ProdNum(cl, l, featureDict, F \ {f})

RECURSIVE ProdDen(_, _, _, _)
ProdDen(cl, l, featureDict, F) ==
    IF F = {} THEN 1
    ELSE LET f == CHOOSE x \in F : TRUE
         IN FeatureProb(cl, l, f, featureDict[f]).d * ProdDen(cl, l, featureDict, F \ {f})

\* prob_classify: P(label) times the product of P(fname = fval | label) over
\* the featureset's features the classifier has seen (the others are deleted)
Score(cl, l, featureDict) ==
    LET F == (DOMAIN featureDict) \cap FNames(cl)
    IN Frac(LabelProb(cl, l).n * ProdNum(cl, l, featureDict, F),
            LabelProb(cl, l).d * ProdDen(cl, l, featureDict, F))

\* classify(featureset) = prob_classify(featureset).max().  The library sums
\* base-2 logarithms in floating point and takes max((p, label)): when both
\* labels have the same factors the sums are the same float and True wins;
\* when only the exact products are equal the rounding decides, so either
\* label is a possible outcome.
Classify(cl, featureDict) ==
    IF Cardinality(Labels(cl)) = 1 THEN Labels(cl)
    ELSE LET F == (DOMAIN featureDict) \cap FNames(cl)
             st == Score(cl, TRUE, featureDict)
             sf == Score(cl, FALSE, featureDict)
             same == /\ FracEq(LabelProb(cl, TRUE), LabelProb(cl, FALSE))
                     /\ \A f \in F : FracEq(FeatureProb(cl, TRUE, f, featureDict[f]),
                                            FeatureProb(cl, FALSE, f, featureDict[f]))
         IN IF FracLess(sf, st) THEN {TRUE}
            ELSE IF FracLess(st, sf) THEN {FALSE}
            ELSE IF same THEN {TRUE}
            ELSE {TRUE, FALSE}

(***************************************************************************)
(* sklearn precision_recall_fscore_support(testY, predictY)                *)
(***************************************************************************)
\* the classes the arrays have an entry for: unique_labels(y_true, y_pred),
\* sorted, False before True
ObservedLabels(testY, predY) ==
    LET U == Range(testY) \cup Range(predY)
    IN (IF FALSE \in U THEN <<FALSE>> ELSE <<>>) \o (IF TRUE \in U THEN <<TRUE>> ELSE <<>>)

TruePositives(testY, predY, l) ==
    Cardinality({i \in 1..Len(testY) : testY[i] = l /\ predY[i] = l})

\* a ratio whose denominator is zero is reported as 0.0 (zero_division="warn")
SafeFrac(a, b) == IF b = 0 THEN Frac(0, 1) ELSE Frac(a, b)

SupportOf(testY, l) == Cardinality({i \in 1..Len(testY) : testY[i] = l})
PredictedOf(predY, l) == Cardinality({i \in 1..Len(predY) : predY[i] = l})

\* the metrics dictionary naive_bayes fills from p, r, f, s
MetricsOf(testY, predY) ==
    LET ls == ObservedLabels(testY, predY)
        tp(l) == TruePositives(testY, predY, l)
    IN [precision |-> [k \in 1..Len(ls) |-> SafeFrac(tp(ls[k]), PredictedOf(predY, ls[k]))],
        recall    |-> [k \in 1..Len(ls) |-> SafeFrac(tp(ls[k]), SupportOf(testY, ls[k]))],
        fscore    |-> [k \in 1..Len(ls) |->
                          SafeFrac(2 * tp(ls[k]),
                                   PredictedOf(predY, ls[k]) + SupportOf(testY, ls[k]))],
        support   |-> [k \in 1..Len(ls) |-> Frac(SupportOf(testY, ls[k]), 1)]]

(***************************************************************************)
(* naive_bayes(featuresets, printMetrics, showConfusionMatrix)             *)
(***************************************************************************)
SubList(list, idx) == [k \in 1..Len(idx) |-> list[idx[k]]]

\* [classifier.classify(features) for features in test_features]
PredictionsOf(cl, test) ==
    {p \in [1..Len(test) -> BOOLEAN] : \A k \in 1..Len(test) : p[k] \in Classify(cl, test[k][1])}

\* ConfusionMatrixDisplay(confusion_matrix, display_labels=["Not Explicit",
\* "Explicit"]).plot(): when the test labels and the predictions show one
\* class the matrix is 1 x 1, plot() sets one tick and then two tick labels,
\* and matplotlib raises ValueError
PlotOutcome(show, testY, predY) ==
    IF show /\ Len(ObservedLabels(testY, predY)) # 2 THEN "ValueError" ELSE "none"

\* every outcome one call can have: the split drawn, the classifier trained
\* on it, the predictions, the metrics, and the exception raised if any
NaiveBayesOutcomes(fsets, show) ==
    LET n == Len(fsets)
    IN IF NTrain(n) = 0
       THEN {[raised |-> "ValueError", train |-> <<>>, test |-> <<>>,
              pred |-> <<>>, classifier |-> <<>>, metrics |-> <<>>]}
       ELSE UNION {
              LET train == TrainIndices(n, S)
                  test == TestIndices(n, S)
                  cl == Train(SubList(fsets, train))
                  testY == [k \in 1..Len(test) |-> fsets[test[k]][2]]
              IN {[raised |-> PlotOutcome(show, testY, predY),
                   train |-> train, test |-> test, pred |-> predY,
                   classifier |-> cl, metrics |-> MetricsOf(testY, predY)]
                     : predY \in PredictionsOf(cl, SubList(fsets, test))}
              : S \in Splits(n)}

(***************************************************************************)
(* classifier.most_informative_features(n)                                 *)
(***************************************************************************)
\* the (fname, fval) pairs the classifier has counted
Features(cl) == UNION {{<<f, v>> : v \in cl.feature_values[f]} : f \in FNames(cl)}

ProbsOf(cl, feature) ==
    {FeatureProb(cl, l, feature[1], feature[2]) :
        l \in {l \in Labels(cl) : feature[2] \in Samples(cl, l, feature[1])}}

MinProb(cl, feature) ==
    CHOOSE x \in ProbsOf(cl, feature) : \A y \in ProbsOf(cl, feature) : FracLeq(x, y)

MaxProb(cl, feature) ==
    CHOOSE x \in ProbsOf(cl, feature) : \A y \in ProbsOf(cl, feature) : FracLeq(y, x)

\* the sort key minprob / maxprob: the smaller, the more informative
Ratio(cl, feature) ==
    Frac(MinProb(cl, feature).n * MaxProb(cl, feature).d,
         MinProb(cl, feature).d * MaxProb(cl, feature).n)

\* The first n of the features sorted by the key.  Features of equal key come
\* in an order the library's version decides (set order, or name and value),
\* so every order of them is a possible outcome.
MostInformativeFeatures(cl, n) ==
    LET F == Features(cl)
        k == IF n < Cardinality(F) THEN n ELSE Cardinality(F)
        key == [f \in F |-> Ratio(cl, f)]
    IN {s \in [1..k -> F] :
          /\ \A i, j \in 1..k : i < j =>
                /\ s[i] # s[j]
                /\ FracLeq(key[s[i]], key[s[j]])
          /\ \A f \in F \ Range(s) : \A i \in 1..k : FracLeq(key[s[i]], key[f])}

\* [featureName for (featureName, _) in ...]
NamesOf(pairs) == [i \in 1..Len(pairs) |-> pairs[i][1]]

\* as NewFeatureDict, but the unlisted words are zeroed, not dropped
NewFeatureDictZeroed(featureDict, names) ==
    [w \in DOMAIN featureDict |-> IF w \in Range(names) THEN featureDict[w] ELSE 0]

\* as NewFeatureDict, but a listed word is kept only where its count is not 0
NewFeatureDictNonZero(featureDict, names) ==
    [w \in {x \in DOMAIN featureDict : x \in Range(names) /\ featureDict[x] # 0}
        |-> featureDict[w]]

\* the loop over featureDict.keys() of the feature-selection cell
NewFeatureDict(featureDict, names) ==
    [w \in {x \in DOMAIN featureDict : x \in Range(names)} |-> featureDict[w]]

InformativeFeaturesets(fsets, names) ==
    [i \in 1..Len(fsets) |-> <<NewFeatureDict(fsets[i][1], names), fsets[i][2]>>]

(***************************************************************************)
(* MonteCarloCrossValidation(featuresets, n)                               *)
(***************************************************************************)
\* the metrics in the order of the dictionary's keys
MetricNames == <<"precision", "recall", "fscore", "support">>

\* the int 0 the averages start at
Scalar(x) == [shape |-> "scalar", v |-> x]
Array(a) == [shape |-> "array", v |-> a]

\* metrics_averages[metric] += metrics[metric].  int += array rebinds to the
\* broadcast sum; array += array adds in place, which numpy refuses when the
\* right side does not broadcast to the left side's shape
CanIAdd(acc, arr) ==
    \/ acc.shape = "scalar"
    \/ Len(arr) = Len(acc.v)
    \/ Len(arr) = 1

IAdd(acc, arr) ==
    IF acc.shape = "scalar" THEN Array([k \in 1..Len(arr) |-> FracAdd(acc.v, arr[k])])
    ELSE IF Len(arr) = Len(acc.v) THEN Array([k \in 1..Len(arr) |-> FracAdd(acc.v[k], arr[k])])
    ELSE Array([k \in 1..Len(acc.v) |-> FracAdd(acc.v[k], arr[1])])

\* metrics_averages[metric] / n
DivideBy(acc, n) ==
    IF acc.shape = "scalar" THEN Scalar(FracDivInt(acc.v, n))
    ELSE Array([k \in 1..Len(acc.v) |-> FracDivInt(acc.v[k], n)])

ZeroAverages == [m \in Range(MetricNames) |-> Scalar(Frac(0, 1))]

\* the first loop, from repetition k on: outs[k] is what the k-th call of
\* naive_bayes does.  An exception ends the function where it is raised.
RECURSIVE MonteCarloLoop(_, _, _)
MonteCarloLoop(outs, k, averages) ==
    IF k > Len(outs) THEN [raised |-> "none", calls |-> Len(outs), averages |-> averages]
    ELSE IF outs[k].raised # "none"
         THEN [raised |-> outs[k].raised, calls |-> k, averages |-> averages]
    ELSE IF \E m \in Range(MetricNames) : ~CanIAdd(averages[m], outs[k].metrics[m])
         THEN [raised |-> "ValueError", calls |-> k, averages |-> averages]
    ELSE MonteCarloLoop(outs, k + 1,
                        [m \in Range(MetricNames) |-> IAdd(averages[m], outs[k].metrics[m])])

MonteCarloCrossValidation(outs, n) ==
    LET r == MonteCarloLoop(outs, 1, ZeroAverages)
    IN IF r.raised # "none" THEN r
       ELSE [r EXCEPT !.averages = [m \in Range(MetricNames) |-> DivideBy(r.averages[m], n)]]

(***************************************************************************)
(* The table read from data/tracks.csv                                     *)
(***************************************************************************)
\* "san nan nan" and "A nan": lyrics of the corpora the classifier is run on
LyricSanNanNan == <<"s", "a", "n", SP, "n", "a", "n", SP, "n", "a", "n">>
LyricANan == <<"A", SP, "n", "a", "n">>
SampleLyrics == {LyricSanNanNan, LyricANan}

\* A row of tracks.csv, reduced to the two columns the notebook reads.  The rows
\* that drop_duplicates keeps differ in some column, not necessarily in these
\* two, so two rows of a table may agree in lyrics and label.
Rows(lyricsSet) == [lyrics : lyricsSet, explicit : BOOLEAN]

RECURSIVE TablesOfLen(_, _)
TablesOfLen(n, lyricsSet) ==
    IF n = 0 THEN {<<>>}
    ELSE {Append(t, r) : t \in TablesOfLen(n - 1, lyricsSet), r \in Rows(lyricsSet)}

Tables(maxRows, lyricsSet) == UNION {TablesOfLen(n, lyricsSet) : n \in 0..maxRows}

Column(table, name) == [i \in 1..Len(table) |-> table[i][name]]

\* the state after the first statements of the data-preparation cell, for
\* the table given
Loaded(table) ==
    /\ pc = "loaded"
    /\ tracks = table
    /\ stemmed_lyrics = <<>>
    /\ restemmed = <<>>
    /\ words = <<>>
    /\ vec = <<>>
    /\ featuresets = <<>>
    /\ err = "none"
    /\ trainSet = <<>>
    /\ testSet = <<>>
    /\ predictY = <<>>
    /\ classifier = <<>>
    /\ metrics = <<>>
    /\ num_most_informative = 0
    /\ most_informative_features = <<>>
    /\ informative_featuresets = <<>>
    /\ mc_n = 0
    /\ mc_calls = 0
    /\ mc_runs = <<>>
    /\ metrics_averages = <<>>

Init == \E table \in Tables(MaxTracks, SampleLyrics) : Loaded(table)

InitSmall == \E table \in Tables(MaxTracksSmall, SampleLyrics) : Loaded(table)

\* one track, or none, with every lyric string up to MaxLen
InitText == \E table \in Tables(1, StringsUpTo(MaxLen)) : Loaded(table)

(***************************************************************************)
(* The cells                                                               *)
(***************************************************************************)
\* stemmedLyrics = stemLyrics(stopWords); tracks.assign(stemmed_lyrics=...)
StemLyricsCell ==
    /\ pc = "loaded"
    /\ stemmed_lyrics' = StemLyricsOf(Column(tracks, "lyrics"), stopWords)
    /\ pc' = "stemmed"
    /\ UNCHANGED <<tracks, restemmed, words, vec, featuresets, err, trainSet, testSet,
                   predictY, classifier, metrics, num_most_informative,
                   most_informative_features, informative_featuresets, mc_n,
                   mc_calls, mc_runs, metrics_averages>>

\* stemLyrics applied to the strings it has produced
RestemCell ==
    /\ pc = "stemmed"
    /\ restemmed' = StemLyricsOf(stemmed_lyrics, stopWords)
    /\ pc' = "restemmed"
    /\ UNCHANGED <<tracks, stemmed_lyrics, words, vec, featuresets, err, trainSet,
                   testSet, predictY, classifier, metrics, num_most_informative,
                   most_informative_features, informative_featuresets, mc_n,
                   mc_calls, mc_runs, metrics_averages>>

\* the CountVectorizer cell: fit_transform raises ValueError("empty
\* vocabulary; ...") when no document holds a token; otherwise words, vec
\* and featuresets are built
VectorizeCell ==
    /\ pc \in {"stemmed", "restemmed"}
    /\ LET vocabulary == VocabularyOf(stemmed_lyrics)
           rows == [i \in 1..Len(stemmed_lyrics) |-> CountVector(stemmed_lyrics[i], vocabulary)]
       IN IF vocabulary = <<>>
          THEN /\ err' = "ValueError"
               /\ pc' = "error"
               /\ UNCHANGED <<words, vec, featuresets>>
          ELSE /\ words' = vocabulary
               /\ vec' = rows
               /\ featuresets' = FeaturesetsOf(vocabulary, rows, Column(tracks, "explicit"))
               /\ pc' = "built"
               /\ err' = err
    /\ UNCHANGED <<tracks, stemmed_lyrics, restemmed, trainSet, testSet, predictY,
                   classifier, metrics, num_most_informative,
                   most_informative_features, informative_featuresets, mc_n,
                   mc_calls, mc_runs, metrics_averages>>

\* classifier, metrics = naive_bayes(featuresets, showConfusionMatrix=True).
\* trainSet, testSet and predictY keep the call's locals; classifier and
\* metrics are assigned when the call returns.
NaiveBayesCell ==
    /\ pc = "built"
    /\ \E o \in NaiveBayesOutcomes(featuresets, TRUE) :
          /\ trainSet' = o.train
          /\ testSet' = o.test
          /\ predictY' = o.pred
          /\ err' = o.raised
          /\ IF o.raised = "none"
             THEN /\ classifier' = o.classifier
                  /\ metrics' = o.metrics
                  /\ pc' = "trained"
             ELSE /\ UNCHANGED <<classifier, metrics>>
                  /\ pc' = "error"
    /\ UNCHANGED <<tracks, stemmed_lyrics, restemmed, words, vec, featuresets,
                   num_most_informative, most_informative_features,
                   informative_featuresets, mc_n, mc_calls, mc_runs, metrics_averages>>

\* the feature-selection cell, for a num_most_informative of K
FeatureSelectionCell ==
    /\ pc = "trained"
    /\ \E K \in 1..MaxK : \E top \in MostInformativeFeatures(classifier, K) :
          /\ num_most_informative' = K
          /\ most_informative_features' = NamesOf(top)
          /\ informative_featuresets' = InformativeFeaturesets(featuresets, NamesOf(top))
    /\ pc' = "selected"
    /\ UNCHANGED <<tracks, stemmed_lyrics, restemmed, words, vec, featuresets, err,
                   trainSet, testSet, predictY, classifier, metrics, mc_n, mc_calls,
                   mc_runs, metrics_averages>>

RECURSIVE SeqsOfLen(_, _)
SeqsOfLen(S, n) ==
    IF n = 0 THEN {<<>>}
    ELSE {Append(q, x) : q \in SeqsOfLen(S, n - 1), x \in S}

\* metrics_averages_all = MonteCarloCrossValidation(featuresets, n): outs is
\* what the n calls of naive_bayes(featuresets, printMetrics=False) do
MonteCarloCell ==
    /\ pc = "built"
    /\ \E n \in 1..MaxN : \E outs \in SeqsOfLen(NaiveBayesOutcomes(featuresets, FALSE), n) :
          LET r == MonteCarloCrossValidation(outs, n)
          IN /\ mc_n' = n
             /\ mc_calls' = r.calls
             /\ mc_runs' = [k \in 1..r.calls |-> outs[k].metrics]
             /\ err' = r.raised
             /\ IF r.raised = "none"
                THEN /\ metrics_averages' = r.averages
                     /\ pc' = "validated"
                ELSE /\ UNCHANGED metrics_averages
                     /\ pc' = "error"
    /\ UNCHANGED <<tracks, stemmed_lyrics, restemmed, words, vec, featuresets, trainSet,
                   testSet, predictY, classifier, metrics, num_most_informative,
                   most_informative_features, informative_featuresets>>

(***************************************************************************)
(* Specifications                                                          *)
(***************************************************************************)
\* data preparation and the first run of the classifier
Next ==
    \/ StemLyricsCell
    \/ VectorizeCell
    \/ NaiveBayesCell

Spec == Init /\ [][Next]_vars

\* ... followed by the feature-selection cell
NextSelect ==
    \/ StemLyricsCell
    \/ VectorizeCell
    \/ NaiveBayesCell
    \/ FeatureSelectionCell

SpecSelect == InitSmall /\ [][NextSelect]_vars

\* data preparation and the Monte Carlo validation of all features
NextMC ==
    \/ StemLyricsCell
    \/ VectorizeCell
    \/ MonteCarloCell

SpecMC == InitSmall /\ [][NextMC]_vars

\* data preparation of a single lyric string
NextText ==
    \/ StemLyricsCell
    \/ RestemCell
    \/ VectorizeCell

SpecText == InitText /\ [][NextText]_vars

(***************************************************************************)
(* Properties                                                              *)
(***************************************************************************)
RECURSIVE SeqSum(_)
SeqSum(q) == IF q = <<>> THEN 0 ELSE Head(q) + SeqSum(Tail(q))

\* the vectorizer cell has run to its end
Built == words # <<>>

\* str.split(): the maximal runs of characters that are not whitespace
RECURSIVE WsScan(_, _, _, _)
WsScan(s, i, cur, acc) ==
    IF i > Len(s) THEN (IF cur # <<>> THEN Append(acc, cur) ELSE acc)
    ELSE IF ~IsSpace(s[i]) THEN WsScan(s, i + 1, Append(cur, s[i]), acc)
    ELSE WsScan(s, i + 1, <<>>, IF cur # <<>> THEN Append(acc, cur) ELSE acc)

WhitespaceTokens(s) == WsScan(s, 1, <<>>, <<>>)

\* the runs of two or more word characters of s, counted by where they start
WordRuns(s) ==
    Cardinality({i \in 1..Len(s) :
        /\ IsWordChar(s[i])
        /\ i = 1 \/ ~IsWordChar(s[i - 1])
        /\ i < Len(s) /\ IsWordChar(s[i + 1])})

\* C1: once the featuresets are built there is one (feature-map, label) pair
\* per track, in the tracks' order and with the track's label; the map of
\* track i has exactly one entry per vocabulary token, and the entry under
\* words[j] is the j-th entry of track i's count vector.
C1_FeaturesetBuilder ==
    Built =>
        /\ Len(featuresets) = Len(tracks)
        /\ \A i \in 1..Len(featuresets) :
              /\ featuresets[i][2] = tracks[i].explicit
              /\ Cardinality(DOMAIN featuresets[i][1]) = Len(words)
              /\ \A j \in 1..Len(words) :
                    /\ words[j] \in DOMAIN featuresets[i][1]
                    /\ featuresets[i][1][words[j]] = vec[i][j]

\* two tracks of different labels, a vocabulary of two tokens, a zero count
C1_Witness ==
    /\ pc = "built"
    /\ Len(words) = 2
    /\ \E i, k \in 1..Len(tracks) :
          /\ tracks[i].explicit # tracks[k].explicit
          /\ \E j \in 1..Len(words) : vec[i][j] = 0 /\ vec[k][j] > 0

\* C2: the normalized string is the stems of the whitespace-delimited tokens
\* of the raw string whose lower-cased form is no stop word, in order, joined
\* by single spaces, whatever whitespace separates the tokens.
C2_WhitespaceNormalizer ==
    pc \in {"stemmed", "restemmed"} =>
        \A i \in 1..Len(tracks) :
            stemmed_lyrics[i] =
                JoinWithSpace(StemKept(WhitespaceTokens(tracks[i].lyrics), stopWords))

\* C3: the reduced sequence has the length and order of the input and each
\* label unchanged; a reduced map holds only names of the top-K list, each
\* with the count it had, hence at most K entries.
C3_FeatureSelector ==
    pc = "selected" =>
        /\ Len(most_informative_features) <= num_most_informative
        /\ Len(informative_featuresets) = Len(featuresets)
        /\ \A i \in 1..Len(featuresets) :
              LET old == featuresets[i][1]
                  new == informative_featuresets[i][1]
              IN /\ informative_featuresets[i][2] = featuresets[i][2]
                 /\ DOMAIN new \subseteq Range(most_informative_features)
                 /\ DOMAIN new \subseteq DOMAIN old
                 /\ \A w \in DOMAIN new : new[w] = old[w]
                 /\ Cardinality(DOMAIN new) <= num_most_informative

\* a selection that drops a token: K = 1 on a vocabulary of two
C3_Witness ==
    /\ pc = "selected"
    /\ num_most_informative = 1
    /\ Len(words) = 2
    /\ Len(featuresets) >= 3
    /\ \A i \in 1..Len(featuresets) :
          Cardinality(DOMAIN informative_featuresets[i][1]) = 1

\* C4 as stated: on the dense featuresets of a vocabulary of at least K
\* tokens, every reduced map has exactly K entries.
C4_ExactlyK ==
    (pc = "selected" /\ Len(words) >= num_most_informative) =>
        \A i \in 1..Len(featuresets) :
            Cardinality(DOMAIN informative_featuresets[i][1]) = num_most_informative

\* C4 amended: the ranking returns K (name, value) pairs, and every reduced
\* map has one entry per distinct name among them: at most K, and fewer
\* than K when a name is ranked with two of its values.
C4_DistinctNames ==
    (pc = "selected" /\ Len(words) >= num_most_informative) =>
        /\ Len(most_informative_features) = num_most_informative
        /\ \A i \in 1..Len(featuresets) :
              /\ DOMAIN informative_featuresets[i][1] = Range(most_informative_features)
              /\ Cardinality(DOMAIN informative_featuresets[i][1]) <= num_most_informative

\* K = 2 on a vocabulary of two tokens, one name ranked twice, one key left
C4_Witness ==
    /\ pc = "selected"
    /\ num_most_informative = 2
    /\ Len(words) = 2
    /\ Len(most_informative_features) = 2
    /\ most_informative_features[1] = most_informative_features[2]
    /\ \E i \in 1..Len(featuresets) :
          /\ Cardinality(DOMAIN informative_featuresets[i][1]) = 1
          /\ \E w \in DOMAIN informative_featuresets[i][1] :
                informative_featuresets[i][1][w] = 0

C6_Idempotent ==
    pc = "restemmed" =>
        /\ restemmed = stemmed_lyrics
        /\ \A i \in 1..Len(stemmed_lyrics) :
              \A k \in 1..Len(SplitOnSpace(stemmed_lyrics[i])) :
                  Lower(SplitOnSpace(stemmed_lyrics[i])[k]) \notin stopWords

\* naive_bayes has drawn a split
SplitDrawn == trainSet # <<>>

TrainLabels == {featuresets[trainSet[k]][2] : k \in 1..Len(trainSet)}
TestY == [k \in 1..Len(testSet) |-> featuresets[testSet[k]][2]]

\* the sum of entry pos of metric m over the repetitions
RECURSIVE RunsSum(_, _, _)
RunsSum(m, pos, k) ==
    IF k = 0 THEN Frac(0, 1)
    ELSE FracAdd(RunsSum(m, pos, k - 1), mc_runs[k][m][pos])

\* C7: for every sequence of n splits the validator calls naive_bayes n
\* times and returns, per metric and class position, the sum of the entry
\* over the n repetitions divided by n, a value between the least and the
\* greatest of the n entries; this also when one repetition observes fewer
\* classes than another.
C7_Averaging ==
    (pc \in {"validated", "error"} /\ mc_n > 0 /\ Len(featuresets) >= 2) =>
        /\ pc = "validated"
        /\ mc_calls = mc_n
        /\ \A m \in Range(MetricNames) :
              /\ metrics_averages[m].shape = "array"
              /\ \A k \in 1..mc_n : Len(mc_runs[k][m]) = Len(metrics_averages[m].v)
              /\ \A pos \in 1..Len(metrics_averages[m].v) :
                    LET avg == metrics_averages[m].v[pos]
                    IN /\ FracEq(avg, FracDivInt(RunsSum(m, pos, mc_n), mc_n))
                       /\ \E k \in 1..mc_n : FracLeq(mc_runs[k][m][pos], avg)
                       /\ \E k \in 1..mc_n : FracLeq(avg, mc_runs[k][m][pos])

C9_FailsOnMissingClass ==
    (SplitDrawn /\ Cardinality(TrainLabels) = 1) => pc = "error"

\* C9 amended: a training subset without one of the two classes raises
\* nothing in training or prediction: the classifier is trained on the class
\* present and predicts that class for every test track.  The call returns
\* classifier and metrics whenever the test labels and predictions show both
\* classes; when they show one, the confusion-matrix plot raises ValueError.
C9_TrainsOnOneClass ==
    (SplitDrawn /\ Cardinality(TrainLabels) = 1) =>
        /\ \A k \in 1..Len(predictY) : predictY[k] \in TrainLabels
        /\ IF Range(TestY) \subseteq TrainLabels
           THEN pc = "error" /\ err = "ValueError"
           ELSE /\ pc = "trained"
                /\ err = "none"
                /\ Labels(classifier) = TrainLabels
                /\ metrics = MetricsOf(TestY, predictY)

\* one class in training, the other in the test subset, and a return
C9_Witness ==
    /\ pc = "trained"
    /\ Cardinality(TrainLabels) = 1
    /\ Len(trainSet) >= 2
    /\ \E k \in 1..Len(testSet) : TestY[k] \notin TrainLabels

\* C10: with no track, or with every normalized string empty, the
\* vectorizer cell completes without raising: the vocabulary is empty, the
\* count vectors have length 0, and there is one empty map per track.
C10_EmptyCorpus ==
    (/\ pc \in {"built", "error"}
     /\ \A i \in 1..Len(stemmed_lyrics) : stemmed_lyrics[i] = <<>>) =>
        /\ pc = "built"
        /\ err = "none"
        /\ words = <<>>
        /\ Len(vec) = Len(tracks)
        /\ Len(featuresets) = Len(tracks)
        /\ \A i \in 1..Len(tracks) : vec[i] = <<>> /\ DOMAIN featuresets[i][1] = {}

====
